---- MODULE Spec2Model ----
(***************************************************************************)
(* A model of MyMath.js: the seeded pseudorandom number generators made by *)
(* prngCreator, the Vector class and the Matrix classes.                   *)
(*                                                                         *)
(* The parts share no state in the source, so each has its own             *)
(* specification over the module's variables: SpecRng for the generators,  *)
(* SpecVec for Vector, SpecMat for Matrix with the vectors it meets,       *)
(* SpecFixed for the identities and products of Matrix and of the          *)
(* fixed-size classes, SpecTransform for the rotations, the translation    *)
(* and the orthographic projection, SpecCons for the constructors of the   *)
(* matrix classes, and SpecVec3 for Vector with Vec2 and Vec3.             *)
(***************************************************************************)
EXTENDS Integers, Sequences, FiniteSets, TLC

(***************************************************************************)
(* JavaScript numbers that hold integers.                                  *)
(*                                                                         *)
(* The generators work on numbers that reach past 2^31, which is more than *)
(* the model's integers hold.  An integer-valued number n is the record    *)
(* [h, l] with n = h * 2^16 + l and 0 <= l < 2^16; h is any integer, so    *)
(* the record holds negative numbers and numbers past 2^32 alike.  Every   *)
(* number the generators compute stays below 2^53, where a double is exact.*)
(***************************************************************************)
Half == 2^16

Num(h, l) == [h |-> h, l |-> l]

NumOf(i) == Num(i \div Half, i % Half)

NumLess(x, y) == x.h < y.h \/ (x.h = y.h /\ x.l < y.l)

NumLeq(x, y) == x = y \/ NumLess(x, y)

\* ToUint32 of ECMAScript: the number modulo 2^32.
ToUint32(n) == Num(n.h % Half, n.l)

\* ToInt32 of ECMAScript: the number modulo 2^32, read as two's complement.
ToInt32(n) ==
  LET u == n.h % Half
  IN  Num(IF u >= Half \div 2 THEN u - Half ELSE u, n.l)

\* x + y on numbers (exact: no sum here reaches 2^53).
JsAdd(x, y) ==
  LET s == x.l + y.l
  IN  Num(x.h + y.h + (s \div Half), s % Half)

\* x * k for a small literal k (exact).
JsMulSmall(x, k) ==
  LET p == x.l * k
  IN  Num(x.h * k + (p \div Half), p % Half)

RECURSIVE XorBits(_, _)
XorBits(a, b) ==
  IF a = 0 THEN b
  ELSE IF b = 0 THEN a
  ELSE ((a + b) % 2) + 2 * XorBits(a \div 2, b \div 2)

RECURSIVE OrBits(_, _)
OrBits(a, b) ==
  IF a = 0 THEN b
  ELSE IF b = 0 THEN a
  ELSE (IF a % 2 = 1 \/ b % 2 = 1 THEN 1 ELSE 0) + 2 * OrBits(a \div 2, b \div 2)

\* x ^ y: both operands through ToInt32, the result an int32.
JsXor(x, y) ==
  LET a == ToUint32(x)
      b == ToUint32(y)
  IN  ToInt32(Num(XorBits(a.h, b.h), XorBits(a.l, b.l)))

\* x | y: both operands through ToInt32, the result an int32.
JsOr(x, y) ==
  LET a == ToUint32(x)
      b == ToUint32(y)
  IN  ToInt32(Num(OrBits(a.h, b.h), OrBits(a.l, b.l)))

\* x << k, 0 <= k < 32: the result an int32.
JsShl(x, k) ==
  LET u == ToUint32(x)
  IN  IF k < 16
      THEN LET p == u.l * 2^k
           IN  ToInt32(Num((u.h * 2^k + (p \div Half)) % Half, p % Half))
      ELSE ToInt32(Num((u.l * 2^(k - 16)) % Half, 0))

\* x >>> k, 0 <= k < 32: the result a uint32.
JsShr(x, k) ==
  LET u == ToUint32(x)
  IN  IF k < 16
      THEN Num(u.h \div 2^k, (u.l \div 2^k) + (u.h % 2^k) * 2^(16 - k))
      ELSE Num(0, u.h \div 2^(k - 16))

\* x >> k, 0 <= k < 16: the sign-propagating shift, the result an int32.
JsSar(x, k) ==
  LET s == ToInt32(x)
  IN  Num(s.h \div 2^k, (s.l \div 2^k) + (s.h % 2^k) * 2^(16 - k))

\* (a * b) mod 2^16 for 0 <= a, b < 2^16, without a product past 2^31.
MulMod16(a, b) == (a * (b % 256) + ((a * (b \div 256)) % 256) * 256) % Half

\* Math.imul(x, y): the low 32 bits of the product, as an int32.
Imul(x, y) ==
  LET a  == ToUint32(x)
      b  == ToUint32(y)
      p0 == a.l * (b.l % 256)
      p1 == a.l * (b.l \div 256)
      lowProduct == JsAdd(Num(p0 \div Half, p0 % Half),
                          Num(p1 \div 256, (p1 % 256) * 256))
      cross == (MulMod16(a.h, b.l) + MulMod16(a.l, b.h)) % Half
  IN  ToInt32(JsAdd(lowProduct, Num(cross, 0)))

(***************************************************************************)
(* The state: of prngCreator's generators, and of the vectors and matrices.*)
(***************************************************************************)
VARIABLES
  calls,   \* the calls of prngCreator so far: arguments and outcome
  cells,   \* the scope of each call: the variables its generator closes over
  draws,   \* draws[i]: the values the generator of call i has returned so far
  vecs,    \* the Vector objects constructed so far: class, length, vArray
  arrs,    \* the arrays behind the vArray fields: arrs[id] is a sequence of values
  mats,    \* the Matrix objects constructed so far: class, height, width, mArray
  last,    \* the last call on a vector or a matrix: operation, arguments, result
  ops      \* the number of method calls made on Vector objects so far

rngVars == <<calls, cells, draws>>

linVars == <<vecs, arrs, mats, last, ops>>

vars == <<rngVars, linVars>>

(***************************************************************************)
(* prngCreator: the seeded generators.                                     *)
(***************************************************************************)
\* The most calls of prngCreator in a run.
MaxCalls == 2

\* The most draws in a run, over all generators.
MaxDraws == 3

Zero == Num(0, 0)

One == Num(0, 1)

\* 4294967296, the divisor of every draw.
TwoTo32 == Num(Half, 0)

\* The seed padding of sfc32 and xoshiro128**: 0x9E3779B8, 0x243F6A88, 0xB7E132B5.
PadA == Num(40503, 31160)

PadB == Num(9279, 27272)

PadC == Num(47073, 12981)

\* 0x6D2B79F5, the increment of Mulberry32.
MulberryIncrement == Num(27947, 31221)

\* 0xDEADBEEF, xored into a random seed.
DeadBeef == Num(57005, 48879)

\* A JavaScript value passed as the seed: undefined, NaN or an integer-valued number.
Undefined == [kind |-> "undefined", num |-> Zero, str |-> ""]

NaN == [kind |-> "NaN", num |-> Zero, str |-> ""]

Number(n) == [kind |-> "number", num |-> n, str |-> ""]

String(s) == [kind |-> "string", num |-> Zero, str |-> s]

\* typeof(v) === "number": NaN is a number too.
IsNumber(v) == v.kind \in {"number", "NaN", "float64"}

IsString(v) == v.kind = "string"

\* The seeds a caller passes: none, 1, and -1, which casts to 2^32 - 1.
SeedArgs == {Undefined, Number(Num(0, 1)), Number(Num(-1, Half - 1))}

\* The algorithm names a caller passes: none, the three names of the list, and a
\* name that is not in the list.
AlgoArgs == {Undefined, String("sfc32"), String("Mulberry32"), String("xoshiro128**"),
             String("foo")}

\* The values Math.floor(Math.random() * 1337) takes, of which the model draws the ends.
RandomDraws == {NumOf(0), NumOf(1336)}

availableAlgos == <<"sfc32", "Mulberry32", "xoshiro128**">>

\* String.prototype.toLowerCase on the names that occur.
ToLowerCase(s) ==
  CASE s = "Mulberry32" -> "mulberry32"
    [] OTHER -> s

\* seed >>>= 0 on a number: NaN casts to 0.
CastSeed(v) == IF v.kind = "NaN" THEN Zero ELSE JsShr(v.num, 0)

\* Line 822: the seed argument, or a random one when it is no number; r is the
\* value of Math.random() * 1337, which ^ truncates.
SeedOf(seedArg, r) ==
  IF seedArg.kind = "undefined" \/ ~IsNumber(seedArg)
  THEN Number(JsXor(r, DeadBeef))
  ELSE seedArg

\* The condition of line 827: true when the name is replaced by "sfc32".
ReplacesAlgo(algo) ==
  \/ algo.kind = "undefined"
  \/ ~IsString(algo)
  \/ \E i \in 1..Len(availableAlgos) :
       ToLowerCase(availableAlgos[i]) = ToLowerCase(algo.str)

\* Lines 827-830: the name the switch sees, and whether console.warn was called.
ChosenAlgo(algo) == IF ReplacesAlgo(algo) THEN "sfc32" ELSE algo.str

Warns(algo) == ReplacesAlgo(algo) /\ algo.kind # "undefined"

\* The scope of a call: the seed and, for sfc32 and xoshiro128**, a, b, c and d.
NewCell(algoName, seed) ==
  IF algoName \in {"sfc32", "xoshiro128**"}
  THEN [seed |-> seed, a |-> PadA, b |-> PadB, c |-> PadC, d |-> seed]
  ELSE [seed |-> seed, a |-> Zero, b |-> Zero, c |-> Zero, d |-> Zero]

\* The value a generator returns: raw / 4294967296.
JsDiv(raw, over) == [num |-> raw, den |-> over]

\* The int32 t itself, without the cast to a uint32.
Sfc32RawSigned(t) == t

\* Line 851: t >>> 0.
Sfc32Raw(t) == JsShr(t, 0)

\* Lines 842-852: one call of the sfc32 generator on its scope.
Sfc32(cell) ==
  LET a0 == JsShr(cell.a, 0)
      b0 == JsShr(cell.b, 0)
      c0 == JsShr(cell.c, 0)
      d0 == JsShr(cell.d, 0)
      t1 == JsOr(JsAdd(a0, b0), Zero)
      a1 == JsXor(b0, JsShr(b0, 9))
      b1 == JsOr(JsAdd(c0, JsShl(c0, 3)), Zero)
      c1 == JsOr(JsShl(c0, 21), JsShr(c0, 11))
      d1 == JsOr(JsAdd(d0, One), Zero)
      t2 == JsOr(JsAdd(t1, d1), Zero)
      c2 == JsOr(JsAdd(c1, t2), Zero)
  IN  [cell |-> [cell EXCEPT !.a = a1, !.b = b1, !.c = c2, !.d = d1],
       value |-> JsDiv(Sfc32Raw(t2), TwoTo32)]

\* Lines 857-862: one call of the Mulberry32 generator; its state is seed itself.
Mulberry32(cell) ==
  LET s1 == JsAdd(cell.seed, MulberryIncrement)
      z1 == Imul(JsXor(s1, JsShr(s1, 15)), JsOr(s1, One))
      z2 == JsXor(z1, JsAdd(z1, Imul(JsXor(z1, JsSar(z1, 7)), JsOr(z1, NumOf(61)))))
  IN  [cell |-> [cell EXCEPT !.seed = s1],
       value |-> JsDiv(JsShr(JsXor(z2, JsShr(z2, 14)), 0), TwoTo32)]

\* Lines 872-883: one call of the xoshiro128** generator on its scope.
Xoshiro128(cell) ==
  LET t  == JsShl(cell.b, 9)
      r0 == JsMulSmall(cell.a, 5)
      r1 == JsMulSmall(JsOr(JsShl(r0, 7), JsShr(r0, 25)), 9)
      c1 == JsXor(cell.c, cell.a)
      d1 == JsXor(cell.d, cell.b)
      b1 == JsXor(cell.b, c1)
      a1 == JsXor(cell.a, d1)
      c2 == JsXor(c1, t)
      d2 == JsOr(JsShl(d1, 11), JsShr(d1, 21))
  IN  [cell |-> [cell EXCEPT !.a = a1, !.b = b1, !.c = c2, !.d = d2],
       value |-> JsDiv(JsShr(r1, 0), TwoTo32)]

\* The cases of the switch of line 834: the names that have a generator.
SwitchCases == {"sfc32", "mulberry32", "xoshiro128**"}

\* The function a call returned, applied once to its scope.
Generate(algoName, cell) ==
  CASE ToLowerCase(algoName) = "sfc32" -> Sfc32(cell)
    [] ToLowerCase(algoName) = "mulberry32" -> Mulberry32(cell)
    [] ToLowerCase(algoName) = "xoshiro128**" -> Xoshiro128(cell)

\* A scope that every call shares, as if a, b, c, d and seed were declared outside
\* prngCreator.
ScopeShared(i) == 1

\* The scope that the generator of call i closes over: a, b, c, d and seed are
\* declared inside the call, so every call has its own.
ScopeOf(i) == i

InitRng ==
  /\ calls = <<>>
  /\ cells = <<>>
  /\ draws = <<>>

\* prngCreator(seedArg, algoArg), with r the value of Math.random() * 1337.
Create(seedArg, algoArg, r) ==
  /\ Len(calls) < MaxCalls
  /\ LET seed == CastSeed(SeedOf(seedArg, r))
         name == ChosenAlgo(algoArg)
         i    == Len(calls) + 1
     IN  /\ calls' = Append(calls,
                       [seedArg |-> seedArg, algoArg |-> algoArg, seed |-> seed,
                        algo |-> name, warned |-> Warns(algoArg),
                        outcome |-> IF ToLowerCase(name) \in SwitchCases
                                    THEN "returned" ELSE "threw",
                        scope |-> ScopeOf(i)])
         /\ cells' = [k \in 1..i |->
                        IF k = ScopeOf(i) THEN NewCell(ToLowerCase(name), seed)
                        ELSE IF k = i THEN NewCell("", Zero)
                        ELSE cells[k]]
         /\ draws' = Append(draws, <<>>)

RECURSIVE TotalDraws(_)
TotalDraws(ds) == IF ds = <<>> THEN 0 ELSE Len(Head(ds)) + TotalDraws(Tail(ds))

\* One call of the generator that call i returned.
Draw(i) ==
  /\ calls[i].outcome = "returned"
  /\ TotalDraws(draws) < MaxDraws
  /\ LET g == Generate(calls[i].algo, cells[calls[i].scope])
     IN  /\ cells' = [cells EXCEPT ![calls[i].scope] = g.cell]
         /\ draws' = [draws EXCEPT ![i] = Append(@, g.value)]
         /\ UNCHANGED calls

NextRng ==
  \/ \E seedArg \in SeedArgs, algoArg \in AlgoArgs, r \in RandomDraws :
       Create(seedArg, algoArg, r)
  \/ \E i \in 1..Len(calls) : Draw(i)

(***************************************************************************)
(* Vectors and matrices.                                                   *)
(*                                                                         *)
(* Elements are float64 in the source; the model's elements are the small  *)
(* integers, on which float64 arithmetic is exact, NaN and undefined.      *)
(* A JavaScript value is a record: a number, NaN, undefined, an array of   *)
(* values, or a reference to a Vector or Matrix object of the heap.        *)
(***************************************************************************)
\* The most Vector and Matrix objects in a run, results included.
MaxObjects == 3

\* The most method calls on a Vector in a run: they can change a Vector where it
\* is, without making an object.  Every other call makes an object or changes
\* nothing.  The two bounds keep every element far below 2^31, where the model's
\* integers end, and below 2^53, where float64 stops being exact.
MaxOps == 2

Float(x) == [kind |-> "number", val |-> x, items |-> <<>>]

FNaN == [kind |-> "NaN", val |-> 0, items |-> <<>>]

FUndefined == [kind |-> "undefined", val |-> 0, items |-> <<>>]

Arr(items) == [kind |-> "array", val |-> 0, items |-> items]

VecRef(id) == [kind |-> "Vector", val |-> id, items |-> <<>>]

MatRef(id) == [kind |-> "Matrix", val |-> id, items |-> <<>>]

\* a[i] for an array a and an index from 0: undefined outside the array.
Index(a, i) == IF i >= 0 /\ i < Len(a) THEN a[i + 1] ELSE FUndefined

\* a[i] = v: an index past the end grows the array.
Store(a, i, v) ==
  IF i < Len(a) THEN [a EXCEPT ![i + 1] = v]
  ELSE a \o [k \in 1..(i - Len(a)) |-> FUndefined] \o <<v>>

\* A float64 value the model keeps no track of: a fraction, an infinity, or what
\* arithmetic makes of them, NaN included.
FUntracked == [kind |-> "float64", val |-> 0, items |-> <<>>]

\* x + y, x - y and x * y on values: NaN as soon as an operand is no number.
Arith(op, x, y) ==
  IF x.kind = "number" /\ y.kind = "number"
  THEN CASE op = "add" -> Float(x.val + y.val)
         [] op = "sub" -> Float(x.val - y.val)
         [] op = "mul" -> Float(x.val * y.val)
  ELSE IF {x.kind, y.kind} \subseteq {"number", "float64"} THEN FUntracked
  ELSE FNaN

\* x / y on values: the quotient where it is an integer, 0 / 0 is NaN, and a
\* fraction or an infinity is not tracked.
Divide(x, y) ==
  IF x.kind = "number" /\ y.kind = "number"
  THEN IF y.val > 0 /\ x.val % y.val = 0 THEN Float(x.val \div y.val)
       ELSE IF y.val < 0 /\ x.val % (-y.val) = 0 THEN Float(-(x.val \div (-y.val)))
       ELSE IF y.val = 0 /\ x.val = 0 THEN FNaN
       ELSE FUntracked
  ELSE IF {x.kind, y.kind} \subseteq {"number", "float64"} THEN FUntracked
  ELSE FNaN

\* The number of rounds of for (let i = 0; i < len; i++): none when len is undefined.
LoopBound(len) == IF len.kind = "number" /\ len.val > 0 THEN len.val ELSE 0

\* The heap a method works on, and what a call leaves: the heap, the value
\* returned, and whether the call threw instead of returning, and what.
HeapOf(vs, as, ms) == [vecs |-> vs, arrs |-> as, mats |-> ms]

Returns(H, value) ==
  [vecs |-> H.vecs, arrs |-> H.arrs, mats |-> H.mats, ret |-> value,
   threw |-> FALSE, error |-> ""]

Throws(H, e) ==
  [vecs |-> H.vecs, arrs |-> H.arrs, mats |-> H.mats, ret |-> FUndefined,
   threw |-> TRUE, error |-> e]

\* Lines 35-46: the fields the Vector constructor sets from its arguments.
VectorFields(content) ==
  IF Len(content) > 0 /\ content[1].kind = "array"
  THEN [length |-> Float(Len(content[1].items)), values |-> content[1].items]
  ELSE IF Len(content) > 0 /\ IsNumber(content[1])
  THEN [length |-> Float(Len(content)), values |-> content]
  ELSE [length |-> FUndefined, values |-> <<>>]

\* new Vector(...content): a new object with a new array, filled by push.
NewVector(H, cls, content) ==
  LET f == VectorFields(content)
      H1 == [H EXCEPT !.arrs = Append(H.arrs, f.values),
                      !.vecs = Append(H.vecs, [cls |-> cls, length |-> f.length,
                                               vArray |-> Len(H.arrs) + 1])]
  IN  Returns(H1, VecRef(Len(H1.vecs)))

\* The loops of lines 101-103, 146-148 and 171-173, from round i on:
\* this.vArray[i] op= v2.vArray[i], one index after the other.
RECURSIVE ZipInPlace(_, _, _, _, _, _)
ZipInPlace(as, op, ta, va, i, n) ==
  IF i >= n THEN as
  ELSE ZipInPlace([as EXCEPT ![ta] = Store(@, i, Arith(op, Index(as[ta], i), Index(as[va], i)))],
                  op, ta, va, i + 1, n)

\* The loops of lines 108-110, 153-155 and 178-180: out.push(this.vArray[i] op v2.vArray[i]).
ZipOut(as, op, ta, va, n) ==
  [k \in 1..n |-> Arith(op, Index(as[ta], k - 1), Index(as[va], k - 1))]

\* The in-place branch of add, sub and the vector multiply: returns this.
ElementwiseInPlace(H, op, this, v2) ==
  LET n == LoopBound(H.vecs[this].length)
  IN  Returns([H EXCEPT !.arrs = ZipInPlace(H.arrs, op, H.vecs[this].vArray,
                                            H.vecs[v2].vArray, 0, n)],
              VecRef(this))

\* The other branch: returns new Vector(out).
ElementwiseNew(H, op, this, v2) ==
  LET n == LoopBound(H.vecs[this].length)
  IN  NewVector(H, "Vector",
                <<Arr(ZipOut(H.arrs, op, H.vecs[this].vArray, H.vecs[v2].vArray, n))>>)

\* add, sub or multiply that ignores its flag and always works in place.
ElementwiseAlwaysInPlace(H, op, this, v2, self) == ElementwiseInPlace(H, op, this, v2)

\* Lines 99-114, 144-159 and 169-184: this op v2 for a Vector v2.
Elementwise(H, op, this, v2, self) ==
  IF self THEN ElementwiseInPlace(H, op, this, v2) ELSE ElementwiseNew(H, op, this, v2)

Vector_add(H, this, v2, self) == Elementwise(H, "add", this, v2, self)

Vector_sub(H, this, v2, self) == Elementwise(H, "sub", this, v2, self)

\* Lines 221-223, from round i on: this.vArray[i] *= value.
RECURSIVE ScaleInPlace(_, _, _, _, _)
ScaleInPlace(as, ta, value, i, n) ==
  IF i >= n THEN as
  ELSE ScaleInPlace([as EXCEPT ![ta] = Store(@, i, Arith("mul", Index(as[ta], i), value))],
                    ta, value, i + 1, n)

\* Lines 219-234: scale(value, self).
Vector_scale(H, this, value, self) ==
  LET n == LoopBound(H.vecs[this].length)
      ta == H.vecs[this].vArray
  IN  IF self
      THEN Returns([H EXCEPT !.arrs = ScaleInPlace(H.arrs, ta, value, 0, n)], VecRef(this))
      ELSE NewVector(H, "Vector",
                     <<Arr([k \in 1..n |-> Arith("mul", Index(H.arrs[ta], k - 1), value)])>>)

\* Lines 192-199: dotProduct(v2), the sum from round i on.
RECURSIVE DotLoop(_, _, _, _, _)
DotLoop(a, b, out, i, n) ==
  IF i >= n THEN out
  ELSE DotLoop(a, b, Arith("add", out, Arith("mul", Index(a, i), Index(b, i))), i + 1, n)

Vector_dotProduct(H, this, v2) ==
  Returns(H, DotLoop(H.arrs[H.vecs[this].vArray], H.arrs[H.vecs[v2].vArray], Float(0), 0,
                     LoopBound(H.vecs[this].length)))

\* A property of a Vector object read through its proxy (lines 48-60): the
\* fields length and vArray, the getter array, and undefined for any other name.
VectorProperty(H, v, name) ==
  CASE name = "length" -> H.vecs[v.val].length
    [] name = "vArray" -> Arr(H.arrs[H.vecs[v.val].vArray])
    [] name = "array" -> Arr(H.arrs[H.vecs[v.val].vArray])
    [] OTHER -> FUndefined

\* v[j] for a value that is not undefined: an element of an array, of a Vector's
\* vArray or of a Matrix's mArray (their proxies), and undefined on a number.
Member(H, v, j) ==
  CASE v.kind = "array" -> Index(v.items, j)
    [] v.kind = "Vector" -> Index(H.arrs[H.vecs[v.val].vArray], j)
    [] v.kind = "Matrix" -> Index(H.mats[v.val].mArray.items, j)
    [] OTHER -> FUndefined

\* [...Array(n)]: n times undefined; Array(undefined) is [undefined]; a negative
\* length or NaN is a RangeError.
ArrayOf(n) ==
  CASE n.kind = "number" /\ n.val >= 0 ->
         [ok |-> TRUE, items |-> [k \in 1..n.val |-> FUndefined]]
    [] n.kind = "number" /\ n.val < 0 -> [ok |-> FALSE, items |-> <<>>]
    [] n.kind = "NaN" -> [ok |-> FALSE, items |-> <<>>]
    [] OTHER -> [ok |-> TRUE, items |-> <<n>>]

\* [...Array(height)].map(() => [...Array(width)]): the grid before it is filled.
\* The inner Array(width) runs once per row, so a bad width fails only when there
\* is a row.
EmptyGrid(height, width) ==
  LET rows == ArrayOf(height)
      cols == ArrayOf(width)
  IN  IF ~rows.ok \/ (Len(rows.items) > 0 /\ ~cols.ok)
      THEN [ok |-> FALSE, grid |-> <<>>]
      ELSE [ok |-> TRUE, grid |-> [i \in 1..Len(rows.items) |-> Arr(cols.items)]]

\* mArray[i][j] = v for i, j from 0.
GridStore(grid, i, j, v) == [grid EXCEPT ![i + 1] = Arr(Store(@.items, j, v))]

\* The filling loops of the constructor from cell (i, j) on, row after row:
\* mArray[i][j] = Source(i, j), where the source of the value depends on the
\* branch: "nested" content[0][i][j], "rows" content[i][j], "columns"
\* content[j].asArray[i], "flat" content[2 + (i * width + j)].  Reading a member
\* of undefined is a TypeError.
FillBase(H, form, content, i, j) ==
  CASE form = "nested" -> Index(content[1].items, i)
    [] form = "rows" -> Index(content, i)
    [] form = "columns" -> VectorProperty(H, Index(content, j), "asArray")
    [] form = "flat" -> Arr(content)

FillIndex(form, i, j, w) ==
  CASE form = "nested" -> j
    [] form = "rows" -> j
    [] form = "columns" -> i
    [] form = "flat" -> 2 + (i * w + j)

RECURSIVE Fill(_, _, _, _, _, _, _, _)
Fill(H, form, content, grid, i, j, h, w) ==
  IF i >= h THEN [ok |-> TRUE, grid |-> grid]
  ELSE IF j >= w THEN Fill(H, form, content, grid, i + 1, 0, h, w)
  ELSE LET base == FillBase(H, form, content, i, j)
       IN  IF base.kind = "undefined"
           THEN [ok |-> FALSE, grid |-> grid]
           ELSE Fill(H, form, content,
                     GridStore(grid, i, j, Member(H, base, FillIndex(form, i, j, w))),
                     i, j + 1, h, w)

\* The fields of a Matrix whose filling loops ended as f: a TypeError when a
\* member of undefined was read.
FilledFields(height, width, f) ==
  [error |-> IF f.ok THEN "" ELSE "TypeError", height |-> height, width |-> width,
   mArray |-> Arr(f.grid)]

\* The filling of the grid g, when making g did not fail with a RangeError.
FillGrid(H, form, content, height, width, g) ==
  IF ~g.ok
  THEN [error |-> "RangeError", height |-> height, width |-> width, mArray |-> FUndefined]
  ELSE FilledFields(height, width,
                    Fill(H, form, content, g.grid, 0, 0, LoopBound(height),
                         LoopBound(width)))

\* The fields a branch of the constructor gives a Matrix, or the error it ends in.
Filled(H, form, content, height, width) ==
  FillGrid(H, form, content, height, width, EmptyGrid(height, width))

\* The test of line 312: the number of arguments is not width * height + 2.
WrongCount(content, height, width) ==
  ~(/\ height.kind = "number"
    /\ width.kind = "number"
    /\ Len(content) = width.val * height.val + 2)

\* Lines 307-323: the flat branch.  The grid g is made first (line 310), then the
\* number of arguments is tested (line 312), then the grid is filled.
FlatFields(H, content, height, width, g) ==
  IF g.ok /\ WrongCount(content, height, width)
  THEN [error |-> "Error", height |-> height, width |-> width, mArray |-> Arr(g.grid)]
  ELSE FillGrid(H, "flat", content, height, width, g)

\* Lines 240-324: the fields the Matrix constructor sets from its arguments, and
\* the error it throws, if any.  When no branch matches, the fields stay undefined.
MatrixFields(H, content) ==
  LET c0 == Index(content, 0)
      c1 == Index(content, 1)
      c2 == Index(content, 2)
  IN  CASE c0.kind = "array" /\ Index(c0.items, 0).kind = "array" ->
             Filled(H, "nested", content, Float(Len(c0.items)),
                    Float(Len(Index(c0.items, 0).items)))
        [] c0.kind = "array" /\ IsNumber(Index(c0.items, 0)) ->
             Filled(H, "rows", content, Float(Len(content)), Float(Len(c0.items)))
        [] c0.kind = "Vector" ->
             Filled(H, "columns", content, VectorProperty(H, c0, "length"),
                    Float(Len(content)))
        [] IsNumber(c0) /\ IsNumber(c1) /\ IsNumber(c2) ->
             FlatFields(H, content, c0, c1, EmptyGrid(c0, c1))
        [] OTHER ->
             [error |-> "", height |-> FUndefined, width |-> FUndefined,
              mArray |-> FUndefined]

\* The object a constructor that set the fields f leaves on the heap, unless it
\* threw.
MatrixObject(H, cls, f) ==
  IF f.error # "" THEN Throws(H, f.error)
  ELSE Returns([H EXCEPT !.mats = Append(H.mats, [cls |-> cls, height |-> f.height,
                                                  width |-> f.width, mArray |-> f.mArray])],
               MatRef(Len(H.mats) + 1))

\* new Matrix(...content), or super(...content) from a subclass cls.
NewMatrix(H, cls, content) == MatrixObject(H, cls, MatrixFields(H, content))

\* x === y on numbers, NaN and undefined.
StrictEquals(x, y) ==
  CASE x.kind = "NaN" \/ y.kind = "NaN" -> FALSE
    [] x.kind = "number" /\ y.kind = "number" -> x.val = y.val
    [] OTHER -> x.kind = y.kind

\* m.mArray[i][j] of a Matrix object m whose row i exists.
GridAt(m, i, j) == Index(Index(m.mArray.items, i).items, j)

\* Whether m.mArray[i] is there to be indexed: else m.mArray[i][j] is a TypeError.
HasRow(m, i) == m.mArray.kind = "array" /\ Index(m.mArray.items, i).kind = "array"

\* Lines 345-351: the values the iterator yields, from cell (i, j) on.
RECURSIVE Iterate(_, _, _)
Iterate(m, i, j) ==
  IF i >= LoopBound(m.height) THEN <<>>
  ELSE IF j >= LoopBound(m.width) THEN Iterate(m, i + 1, 0)
  ELSE <<GridAt(m, i, j)>> \o Iterate(m, i, j + 1)

Matrix_iterator(m) == Iterate(m, 0, 0)

\* Lines 359-366: Matrix.getIdentity(size).
Matrix_getIdentity(H, size) ==
  NewMatrix(H, "Matrix",
            <<Arr([i \in 1..size |-> Arr([j \in 1..size |-> Float(IF i = j THEN 1 ELSE 0)])])>>)

\* The sum with the second operand read across: in2.mArray[i][c].
RECURSIVE DotCellTransposed(_, _, _, _, _, _, _)
DotCellTransposed(in1, in2, j, i, c, n, acc) ==
  IF c >= n THEN acc
  ELSE DotCellTransposed(in1, in2, j, i, c + 1, n,
                         Arith("add", acc, Arith("mul", GridAt(in1, j, c), GridAt(in2, i, c))))

\* Lines 401-404: outArray[j][i] = 0, then += in1.mArray[j][c] * in2.mArray[c][i]
\* for c from 0 to in1.width - 1.
RECURSIVE DotCell(_, _, _, _, _, _, _)
DotCell(in1, in2, j, i, c, n, acc) ==
  IF c >= n THEN acc
  ELSE DotCell(in1, in2, j, i, c + 1, n,
               Arith("add", acc, Arith("mul", GridAt(in1, j, c), GridAt(in2, c, i))))

\* Lines 397-406: outArray.
DotGrid(in1, in2) ==
  LET g == EmptyGrid(in1.height, in2.width)
      h == LoopBound(in1.height)
      w == LoopBound(in2.width)
  IN  [j \in 1..Len(g.grid) |->
        Arr([i \in 1..Len(g.grid[j].items) |->
              IF j <= h /\ i <= w
              THEN DotCell(in1, in2, j - 1, i - 1, 0, LoopBound(in1.width), Float(0))
              ELSE g.grid[j].items[i]])]

\* Lines 408-412: what is returned for outArray.
DotResult(H, outArray, asVector) ==
  IF asVector
  THEN NewVector(H, "Vector",
                 <<Arr([j \in 1..Len(outArray) |-> Index(outArray[j].items, 0)])>>)
  ELSE NewMatrix(H, "Matrix", <<Arr(outArray)>>)

\* The product without the test of line 390.
DotOfMatricesUnchecked(H, in1, in2, asVector) == DotResult(H, DotGrid(in1, in2), asVector)

\* Lines 390-412: the product of two Matrix objects of the heap, as a Vector when
\* an operand was one.
DotOfMatrices(H, in1, in2, asVector) ==
  IF ~StrictEquals(in1.width, in2.height) THEN Throws(H, "Error")
  ELSE DotResult(H, DotGrid(in1, in2), asVector)

\* Lines 381-388: in = new Matrix(in) for a Vector operand, the operand itself
\* otherwise.
AsMatrix(H, m) ==
  IF m.kind = "Vector" THEN NewMatrix(H, "Matrix", <<m>>) ELSE Returns(H, m)

\* The product once both operands are Matrix objects: c1 and c2 are what the two
\* conversions left.
DotAfterSecond(m1, m2, c1, c2) ==
  IF c2.threw THEN c2
  ELSE DotOfMatrices(HeapOf(c2.vecs, c2.arrs, c2.mats), c2.mats[c1.ret.val],
                     c2.mats[c2.ret.val], m1.kind = "Vector" \/ m2.kind = "Vector")

DotAfterFirst(m1, m2, c1) ==
  IF c1.threw THEN c1
  ELSE DotAfterSecond(m1, m2, c1, AsMatrix(HeapOf(c1.vecs, c1.arrs, c1.mats), m2))

\* Lines 376-413: Matrix.dotProduct(m1, m2) for values that are Vector or Matrix
\* objects.  A Vector operand is first made a Matrix (lines 381-388).
Matrix_dotProduct(H, m1, m2) == DotAfterFirst(m1, m2, AsMatrix(H, m1))

\* The fixed sizes: the classes Mat2x2, Mat3x3 and Mat4x4.
FixedClasses == {"Mat2x2", "Mat3x3", "Mat4x4"}

SizeOf(cls) == CASE cls = "Mat2x2" -> 2 [] cls = "Mat3x3" -> 3 [] cls = "Mat4x4" -> 4

\* Lines 508-514, 562-568 and 656-662: new Mat2x2(...), new Mat3x3(...), new Mat4x4(...).
NewFixed(H, cls, args) ==
  IF IsNumber(Index(args, 0))
  THEN NewMatrix(H, cls, <<Float(SizeOf(cls)), Float(SizeOf(cls))>> \o args)
  ELSE NewMatrix(H, cls, args)

\* Lines 520-525, 574-580 and 668-675: getIdentity() of a fixed class, one row
\* array per argument.
Fixed_getIdentity(H, cls) ==
  NewFixed(H, cls, [i \in 1..SizeOf(cls) |->
                     Arr([j \in 1..SizeOf(cls) |-> Float(IF i = j THEN 1 ELSE 0)])])

\* Math.cos and Math.sin at the angle of `turns` quarter turns, turns * PI / 2,
\* where they are -1, 0 or 1.  (The float64 results are within 2^-52 of these.)
Math_cos(turns) ==
  CASE turns % 4 = 0 -> Float(1) [] turns % 4 = 2 -> Float(-1) [] OTHER -> Float(0)

Math_sin(turns) ==
  CASE turns % 4 = 1 -> Float(1) [] turns % 4 = 3 -> Float(-1) [] OTHER -> Float(0)

\* The rows with the sine of the first row kept as it is, not negated.
RotationRowsSineKept(cls, turns) ==
  IF cls = "Mat2x2"
  THEN <<Arr(<<Math_cos(turns), Math_sin(turns)>>),
         Arr(<<Math_sin(turns), Math_cos(turns)>>)>>
  ELSE <<Arr(<<Math_cos(turns), Math_sin(turns), Float(0)>>),
         Arr(<<Math_sin(turns), Math_cos(turns), Float(0)>>),
         Arr(<<Float(0), Float(0), Float(1)>>)>>

\* Lines 534-537 and 599-603: the rows getRotation(angle) of Mat2x2 and of Mat3x3
\* passes to the constructor.
RotationRows(cls, turns) ==
  IF cls = "Mat2x2"
  THEN <<Arr(<<Math_cos(turns), Arith("mul", Float(-1), Math_sin(turns))>>),
         Arr(<<Math_sin(turns), Math_cos(turns)>>)>>
  ELSE <<Arr(<<Math_cos(turns), Arith("mul", Float(-1), Math_sin(turns)), Float(0)>>),
         Arr(<<Math_sin(turns), Math_cos(turns), Float(0)>>),
         Arr(<<Float(0), Float(0), Float(1)>>)>>

\* Lines 533-538 and 598-604: Mat2x2.getRotation(angle), Mat3x3.getRotation(angle).
Fixed_getRotation(H, cls, turns) == NewFixed(H, cls, RotationRows(cls, turns))

\* Lines 677-684: Mat4x4.getTranslation(x, y, z).
Mat4x4_getTranslation(H, x, y, z) ==
  NewFixed(H, "Mat4x4",
           <<Arr(<<Float(1), Float(0), Float(0), x>>),
             Arr(<<Float(0), Float(1), Float(0), y>>),
             Arr(<<Float(0), Float(0), Float(1), z>>),
             Arr(<<Float(0), Float(0), Float(0), Float(1)>>)>>)

\* Lines 735-742: Mat4x4.getOrthographic(left, right, bottom, top, near, far).
Mat4x4_getOrthographic(H, left, right, bottom, top, near, far) ==
  NewFixed(H, "Mat4x4",
           <<Arr(<<Divide(Float(2), Arith("sub", right, left)), Float(0), Float(0), Float(0)>>),
             Arr(<<Float(0), Divide(Float(2), Arith("sub", top, bottom)), Float(0), Float(0)>>),
             Arr(<<Float(0), Float(0), Divide(Float(2), Arith("sub", near, far)), Float(0)>>),
             Arr(<<Divide(Arith("add", left, right), Arith("sub", left, right)),
                   Divide(Arith("add", bottom, top), Arith("sub", bottom, top)),
                   Divide(Arith("add", near, far), Arith("sub", near, far)),
                   Float(1)>>)>>)

\* The unrolled product of Mat2x2 with m01 and m10 in each other's place.
Mat2x2_rowsTransposed(A, B) ==
  <<Arr(<<Arith("add", Arith("mul", GridAt(A, 0, 0), GridAt(B, 0, 0)),
            Arith("mul", GridAt(A, 0, 1), GridAt(B, 1, 0))),
          Arith("add", Arith("mul", GridAt(A, 1, 0), GridAt(B, 0, 0)),
            Arith("mul", GridAt(A, 1, 1), GridAt(B, 1, 0)))>>),
    Arr(<<Arith("add", Arith("mul", GridAt(A, 0, 0), GridAt(B, 0, 1)),
            Arith("mul", GridAt(A, 0, 1), GridAt(B, 1, 1))),
          Arith("add", Arith("mul", GridAt(A, 1, 0), GridAt(B, 0, 1)),
            Arith("mul", GridAt(A, 1, 1), GridAt(B, 1, 1)))>>)>>

\* Lines 546-549 and 551-554: the entries of the unrolled product of Mat2x2.dotProduct,
\* and the rows passed to new Mat2x2(...).
Mat2x2_rows(A, B) ==
  LET m00 ==
        Arith("add", Arith("mul", GridAt(A, 0, 0), GridAt(B, 0, 0)),
          Arith("mul", GridAt(A, 0, 1), GridAt(B, 1, 0)))
      m01 ==
        Arith("add", Arith("mul", GridAt(A, 0, 0), GridAt(B, 0, 1)),
          Arith("mul", GridAt(A, 0, 1), GridAt(B, 1, 1)))
      m10 ==
        Arith("add", Arith("mul", GridAt(A, 1, 0), GridAt(B, 0, 0)),
          Arith("mul", GridAt(A, 1, 1), GridAt(B, 1, 0)))
      m11 ==
        Arith("add", Arith("mul", GridAt(A, 1, 0), GridAt(B, 0, 1)),
          Arith("mul", GridAt(A, 1, 1), GridAt(B, 1, 1)))
  IN  <<Arr(<<m00, m01>>),
        Arr(<<m10, m11>>)>>

\* Lines 632-642 and 644-648: the entries of the unrolled product of Mat3x3.dotProduct,
\* and the rows passed to new Mat3x3(...).
Mat3x3_rows(A, B) ==
  LET m00 ==
        Arith("add", Arith("add", Arith("mul", GridAt(A, 0, 0), GridAt(B, 0, 0)),
          Arith("mul", GridAt(A, 0, 1), GridAt(B, 1, 0))),
          Arith("mul", GridAt(A, 0, 2), GridAt(B, 2, 0)))
      m01 ==
        Arith("add", Arith("add", Arith("mul", GridAt(A, 0, 0), GridAt(B, 0, 1)),
          Arith("mul", GridAt(A, 0, 1), GridAt(B, 1, 1))),
          Arith("mul", GridAt(A, 0, 2), GridAt(B, 2, 1)))
      m02 ==
        Arith("add", Arith("add", Arith("mul", GridAt(A, 0, 0), GridAt(B, 0, 2)),
          Arith("mul", GridAt(A, 0, 1), GridAt(B, 1, 2))),
          Arith("mul", GridAt(A, 0, 2), GridAt(B, 2, 2)))
      m10 ==
        Arith("add", Arith("add", Arith("mul", GridAt(A, 1, 0), GridAt(B, 0, 0)),
          Arith("mul", GridAt(A, 1, 1), GridAt(B, 1, 0))),
          Arith("mul", GridAt(A, 1, 2), GridAt(B, 2, 0)))
      m11 ==
        Arith("add", Arith("add", Arith("mul", GridAt(A, 1, 0), GridAt(B, 0, 1)),
          Arith("mul", GridAt(A, 1, 1), GridAt(B, 1, 1))),
          Arith("mul", GridAt(A, 1, 2), GridAt(B, 2, 1)))
      m12 ==
        Arith("add", Arith("add", Arith("mul", GridAt(A, 1, 0), GridAt(B, 0, 2)),
          Arith("mul", GridAt(A, 1, 1), GridAt(B, 1, 2))),
          Arith("mul", GridAt(A, 1, 2), GridAt(B, 2, 2)))
      m20 ==
        Arith("add", Arith("add", Arith("mul", GridAt(A, 2, 0), GridAt(B, 0, 0)),
          Arith("mul", GridAt(A, 2, 1), GridAt(B, 1, 0))),
          Arith("mul", GridAt(A, 2, 2), GridAt(B, 2, 0)))
      m21 ==
        Arith("add", Arith("add", Arith("mul", GridAt(A, 2, 0), GridAt(B, 0, 1)),
          Arith("mul", GridAt(A, 2, 1), GridAt(B, 1, 1))),
          Arith("mul", GridAt(A, 2, 2), GridAt(B, 2, 1)))
      m22 ==
        Arith("add", Arith("add", Arith("mul", GridAt(A, 2, 0), GridAt(B, 0, 2)),
          Arith("mul", GridAt(A, 2, 1), GridAt(B, 1, 2))),
          Arith("mul", GridAt(A, 2, 2), GridAt(B, 2, 2)))
  IN  <<Arr(<<m00, m01, m02>>),
        Arr(<<m10, m11, m12>>),
        Arr(<<m20, m21, m22>>)>>

\* Lines 777-795 and 797-802: the entries of the unrolled product of Mat4x4.dotProduct,
\* and the rows passed to new Mat4x4(...).
Mat4x4_rows(A, B) ==
  LET m00 ==
        Arith("add", Arith("add", Arith("add", Arith("mul", GridAt(A, 0, 0), GridAt(B, 0, 0)),
          Arith("mul", GridAt(A, 0, 1), GridAt(B, 1, 0))),
          Arith("mul", GridAt(A, 0, 2), GridAt(B, 2, 0))),
          Arith("mul", GridAt(A, 0, 3), GridAt(B, 3, 0)))
      m01 ==
        Arith("add", Arith("add", Arith("add", Arith("mul", GridAt(A, 0, 0), GridAt(B, 0, 1)),
          Arith("mul", GridAt(A, 0, 1), GridAt(B, 1, 1))),
          Arith("mul", GridAt(A, 0, 2), GridAt(B, 2, 1))),
          Arith("mul", GridAt(A, 0, 3), GridAt(B, 3, 1)))
      m02 ==
        Arith("add", Arith("add", Arith("add", Arith("mul", GridAt(A, 0, 0), GridAt(B, 0, 2)),
          Arith("mul", GridAt(A, 0, 1), GridAt(B, 1, 2))),
          Arith("mul", GridAt(A, 0, 2), GridAt(B, 2, 2))),
          Arith("mul", GridAt(A, 0, 3), GridAt(B, 3, 2)))
      m03 ==
        Arith("add", Arith("add", Arith("add", Arith("mul", GridAt(A, 0, 0), GridAt(B, 0, 3)),
          Arith("mul", GridAt(A, 0, 1), GridAt(B, 1, 3))),
          Arith("mul", GridAt(A, 0, 2), GridAt(B, 2, 3))),
          Arith("mul", GridAt(A, 0, 3), GridAt(B, 3, 3)))
      m10 ==
        Arith("add", Arith("add", Arith("add", Arith("mul", GridAt(A, 1, 0), GridAt(B, 0, 0)),
          Arith("mul", GridAt(A, 1, 1), GridAt(B, 1, 0))),
          Arith("mul", GridAt(A, 1, 2), GridAt(B, 2, 0))),
          Arith("mul", GridAt(A, 1, 3), GridAt(B, 3, 0)))
      m11 ==
        Arith("add", Arith("add", Arith("add", Arith("mul", GridAt(A, 1, 0), GridAt(B, 0, 1)),
          Arith("mul", GridAt(A, 1, 1), GridAt(B, 1, 1))),
          Arith("mul", GridAt(A, 1, 2), GridAt(B, 2, 1))),
          Arith("mul", GridAt(A, 1, 3), GridAt(B, 3, 1)))
      m12 ==
        Arith("add", Arith("add", Arith("add", Arith("mul", GridAt(A, 1, 0), GridAt(B, 0, 2)),
          Arith("mul", GridAt(A, 1, 1), GridAt(B, 1, 2))),
          Arith("mul", GridAt(A, 1, 2), GridAt(B, 2, 2))),
          Arith("mul", GridAt(A, 1, 3), GridAt(B, 3, 2)))
      m13 ==
        Arith("add", Arith("add", Arith("add", Arith("mul", GridAt(A, 1, 0), GridAt(B, 0, 3)),
          Arith("mul", GridAt(A, 1, 1), GridAt(B, 1, 3))),
          Arith("mul", GridAt(A, 1, 2), GridAt(B, 2, 3))),
          Arith("mul", GridAt(A, 1, 3), GridAt(B, 3, 3)))
      m20 ==
        Arith("add", Arith("add", Arith("add", Arith("mul", GridAt(A, 2, 0), GridAt(B, 0, 0)),
          Arith("mul", GridAt(A, 2, 1), GridAt(B, 1, 0))),
          Arith("mul", GridAt(A, 2, 2), GridAt(B, 2, 0))),
          Arith("mul", GridAt(A, 2, 3), GridAt(B, 3, 0)))
      m21 ==
        Arith("add", Arith("add", Arith("add", Arith("mul", GridAt(A, 2, 0), GridAt(B, 0, 1)),
          Arith("mul", GridAt(A, 2, 1), GridAt(B, 1, 1))),
          Arith("mul", GridAt(A, 2, 2), GridAt(B, 2, 1))),
          Arith("mul", GridAt(A, 2, 3), GridAt(B, 3, 1)))
      m22 ==
        Arith("add", Arith("add", Arith("add", Arith("mul", GridAt(A, 2, 0), GridAt(B, 0, 2)),
          Arith("mul", GridAt(A, 2, 1), GridAt(B, 1, 2))),
          Arith("mul", GridAt(A, 2, 2), GridAt(B, 2, 2))),
          Arith("mul", GridAt(A, 2, 3), GridAt(B, 3, 2)))
      m23 ==
        Arith("add", Arith("add", Arith("add", Arith("mul", GridAt(A, 2, 0), GridAt(B, 0, 3)),
          Arith("mul", GridAt(A, 2, 1), GridAt(B, 1, 3))),
          Arith("mul", GridAt(A, 2, 2), GridAt(B, 2, 3))),
          Arith("mul", GridAt(A, 2, 3), GridAt(B, 3, 3)))
      m30 ==
        Arith("add", Arith("add", Arith("add", Arith("mul", GridAt(A, 3, 0), GridAt(B, 0, 0)),
          Arith("mul", GridAt(A, 3, 1), GridAt(B, 1, 0))),
          Arith("mul", GridAt(A, 3, 2), GridAt(B, 2, 0))),
          Arith("mul", GridAt(A, 3, 3), GridAt(B, 3, 0)))
      m31 ==
        Arith("add", Arith("add", Arith("add", Arith("mul", GridAt(A, 3, 0), GridAt(B, 0, 1)),
          Arith("mul", GridAt(A, 3, 1), GridAt(B, 1, 1))),
          Arith("mul", GridAt(A, 3, 2), GridAt(B, 2, 1))),
          Arith("mul", GridAt(A, 3, 3), GridAt(B, 3, 1)))
      m32 ==
        Arith("add", Arith("add", Arith("add", Arith("mul", GridAt(A, 3, 0), GridAt(B, 0, 2)),
          Arith("mul", GridAt(A, 3, 1), GridAt(B, 1, 2))),
          Arith("mul", GridAt(A, 3, 2), GridAt(B, 2, 2))),
          Arith("mul", GridAt(A, 3, 3), GridAt(B, 3, 2)))
      m33 ==
        Arith("add", Arith("add", Arith("add", Arith("mul", GridAt(A, 3, 0), GridAt(B, 0, 3)),
          Arith("mul", GridAt(A, 3, 1), GridAt(B, 1, 3))),
          Arith("mul", GridAt(A, 3, 2), GridAt(B, 2, 3))),
          Arith("mul", GridAt(A, 3, 3), GridAt(B, 3, 3)))
  IN  <<Arr(<<m00, m01, m02, m03>>),
        Arr(<<m10, m11, m12, m13>>),
        Arr(<<m20, m21, m22, m23>>),
        Arr(<<m30, m31, m32, m33>>)>>

UnrolledRows(cls, A, B) ==
  CASE cls = "Mat2x2" -> Mat2x2_rows(A, B)
    [] cls = "Mat3x3" -> Mat3x3_rows(A, B)
    [] cls = "Mat4x4" -> Mat4x4_rows(A, B)

\* v instanceof cls for a value v.
InstanceOf(H, v, cls) == v.kind = "Matrix" /\ H.mats[v.val].cls = cls

\* Lines 541-558, 626-652 and 770-806: cls.dotProduct(A, B) of a fixed class.  The
\* unrolled product reads rows 0 .. size - 1 of both operands: a missing row is a
\* TypeError.
Fixed_dotProduct(H, cls, A, B) ==
  IF InstanceOf(H, A, cls) /\ InstanceOf(H, B, cls)
  THEN IF \E i \in 0..(SizeOf(cls) - 1) :
            ~HasRow(H.mats[A.val], i) \/ ~HasRow(H.mats[B.val], i)
       THEN Throws(H, "TypeError")
       ELSE NewFixed(H, cls, UnrolledRows(cls, H.mats[A.val], H.mats[B.val]))
  ELSE Matrix_dotProduct(H, A, B)

\* Lines 116-128: multiply(value, self) for a Matrix value, from round i of the
\* in-place loop on: this.vArray[i] = out[i].
RECURSIVE CopyInPlace(_, _, _, _, _, _)
CopyInPlace(H, as, ta, out, i, n) ==
  IF i >= n THEN as
  ELSE CopyInPlace(H, [as EXCEPT ![ta] = Store(@, i, Member(H, out, i))], ta, out, i + 1, n)

\* Lines 116-128: what multiply leaves when Matrix.dotProduct left d: the new
\* Vector, or this with the elements of the new Vector copied into it.
MultiplyByMatrix(this, self, d) ==
  IF d.threw \/ ~self THEN d
  ELSE Returns([vecs |-> d.vecs, mats |-> d.mats,
                arrs |-> CopyInPlace(HeapOf(d.vecs, d.arrs, d.mats), d.arrs,
                                     d.vecs[this].vArray, d.ret, 0,
                                     LoopBound(d.vecs[this].length))],
               VecRef(this))

\* Lines 97-134: multiply(value, self).
Vector_multiply(H, this, value, self) ==
  CASE value.kind = "Vector" -> Elementwise(H, "mul", this, value.val, self)
    [] value.kind = "Matrix" ->
         MultiplyByMatrix(this, self, Matrix_dotProduct(H, value, VecRef(this)))
    [] IsNumber(value) -> Vector_scale(H, this, value, self)
    [] OTHER -> Returns(H, FUndefined)

\* Math.sqrt(x): the root of a square number; NaN below 0; any other root is not
\* tracked.
Math_sqrt(x) ==
  CASE x.kind = "number" /\ x.val < 0 -> FNaN
    [] x.kind = "number" /\ (\E r \in 0..x.val : r * r = x.val) ->
         Float(CHOOSE r \in 0..x.val : r * r = x.val)
    [] x.kind \in {"number", "float64"} -> FUntracked
    [] OTHER -> FNaN

\* Lines 74-81: the getter magnitude of Vector, a loop over this.length elements;
\* lines 447-449: the getter of Vec3, over the elements 0, 1 and 2.
Magnitude(H, this) ==
  IF H.vecs[this].cls = "Vec3"
  THEN Math_sqrt(Arith("add",
                       Arith("add",
                             Arith("mul", Index(H.arrs[H.vecs[this].vArray], 0),
                                   Index(H.arrs[H.vecs[this].vArray], 0)),
                             Arith("mul", Index(H.arrs[H.vecs[this].vArray], 1),
                                   Index(H.arrs[H.vecs[this].vArray], 1))),
                       Arith("mul", Index(H.arrs[H.vecs[this].vArray], 2),
                             Index(H.arrs[H.vecs[this].vArray], 2))))
  ELSE Math_sqrt(DotLoop(H.arrs[H.vecs[this].vArray], H.arrs[H.vecs[this].vArray],
                         Float(0), 0, LoopBound(H.vecs[this].length)))

\* Lines 207-209: normalize(self).
Vector_normalize(H, this, self) ==
  Vector_scale(H, this, Divide(Float(1), Magnitude(H, this)), self)

\* Lines 459-503: crossProduct, add and sub of Vec3.  o0, o1 and o2 are computed
\* from the elements 0, 1 and 2 of this.vArray and v2[0], v2[1], v2[2], then
\* stored in this.vArray[0], [1] and [2], or passed to new Vec3(o0, o1, o2).
Vec3_method(H, method, this, v2, self) ==
  LET a == H.arrs[H.vecs[this].vArray]
      o == IF method = "crossProduct"
           THEN <<Arith("sub", Arith("mul", Index(a, 1), Member(H, v2, 2)),
                               Arith("mul", Index(a, 2), Member(H, v2, 1))),
                  Arith("sub", Arith("mul", Index(a, 2), Member(H, v2, 0)),
                               Arith("mul", Index(a, 0), Member(H, v2, 2))),
                  Arith("sub", Arith("mul", Index(a, 0), Member(H, v2, 1)),
                               Arith("mul", Index(a, 1), Member(H, v2, 0)))>>
           ELSE [k \in 1..3 |-> Arith(method, Index(a, k - 1), Member(H, v2, k - 1))]
  IN  IF self
      THEN Returns([H EXCEPT !.arrs[H.vecs[this].vArray] =
                               Store(Store(Store(@, 0, o[1]), 1, o[2]), 2, o[3])],
                   VecRef(this))
      ELSE NewVector(H, "Vec3", o)

(***************************************************************************)
(* The calls a program makes on vectors and matrices.                      *)
(***************************************************************************)
\* The factors a caller scales by.
Factors == {Float(3)}

\* The arrays of elements a Vector is made from: one of length 1, one of length 2.
ElementArrays == {<<Float(2)>>, <<Float(1), Float(2)>>}

\* The arguments of new Vector(...): one array, or the elements themselves.
VectorContents == {<<Arr(e)>> : e \in ElementArrays} \cup ElementArrays

NoCall ==
  [op |-> "none", cls |-> "", this |-> 0, args |-> <<>>, self |-> FALSE,
   ret |-> FUndefined, threw |-> FALSE, error |-> ""]

InitLin ==
  /\ vecs = <<>>
  /\ arrs = <<>>
  /\ mats = <<>>
  /\ last = NoCall
  /\ ops = 0

Heap == HeapOf(vecs, arrs, mats)

\* The state after a call that left r, within the bounds of the model.
Leaves(op, cls, this, args, self, r) ==
  /\ Len(r.vecs) + Len(r.mats) <= MaxObjects
  /\ vecs' = r.vecs
  /\ arrs' = r.arrs
  /\ mats' = r.mats
  /\ last' = [op |-> op, cls |-> cls, this |-> this, args |-> args, self |-> self,
              ret |-> r.ret, threw |-> r.threw, error |-> r.error]

\* new Vector(...content).
VecConstruct(content) ==
  /\ Leaves("new", "Vector", 0, content, FALSE, NewVector(Heap, "Vector", content))
  /\ UNCHANGED ops

\* this.add(v2, self).
VecAdd(this, v2, self) ==
  /\ ops < MaxOps
  /\ Leaves("add", "Vector", this, <<VecRef(v2)>>, self, Vector_add(Heap, this, v2, self))
  /\ ops' = ops + 1

\* this.sub(v2, self).
VecSub(this, v2, self) ==
  /\ ops < MaxOps
  /\ Leaves("sub", "Vector", this, <<VecRef(v2)>>, self, Vector_sub(Heap, this, v2, self))
  /\ ops' = ops + 1

\* this.multiply(value, self).
VecMultiply(this, value, self) ==
  /\ ops < MaxOps
  /\ Leaves("multiply", "Vector", this, <<value>>, self,
            Vector_multiply(Heap, this, value, self))
  /\ ops' = ops + 1

\* this.scale(value, self).
VecScale(this, value, self) ==
  /\ ops < MaxOps
  /\ Leaves("scale", "Vector", this, <<value>>, self, Vector_scale(Heap, this, value, self))
  /\ ops' = ops + 1

\* this.dotProduct(v2).
VecDot(this, v2) ==
  /\ ops < MaxOps
  /\ Leaves("dotProduct", "Vector", this, <<VecRef(v2)>>, FALSE,
            Vector_dotProduct(Heap, this, v2))
  /\ ops' = ops + 1

VecIds == 1..Len(vecs)

NextVec ==
  \/ \E content \in VectorContents : VecConstruct(content)
  \/ \E this \in VecIds, v2 \in VecIds, self \in BOOLEAN : VecAdd(this, v2, self)
  \/ \E this \in VecIds, v2 \in VecIds, self \in BOOLEAN : VecSub(this, v2, self)
  \/ \E this \in VecIds, v2 \in VecIds, self \in BOOLEAN :
       VecMultiply(this, VecRef(v2), self)
  \/ \E this \in VecIds, value \in Factors, self \in BOOLEAN :
       VecMultiply(this, value, self)
  \/ \E this \in VecIds, value \in Factors, self \in BOOLEAN : VecScale(this, value, self)
  \/ \E this \in VecIds, v2 \in VecIds : VecDot(this, v2)

\* An array of numbers.
Floats(s) == Arr([k \in 1..Len(s) |-> Float(s[k])])

\* The arguments of new Matrix(...) for a square matrix: a nested array (2 x 2).
SquareContents == {<<Arr(<<Floats(<<1, 2>>), Floats(<<3, 4>>)>>)>>}

\* The arguments of new Matrix(...) a caller passes: the nested array (2 x 2), one
\* array per row (3 x 2), and height, width and scalars: 2 x 3 with six, five and
\* no scalars, and 1 x 2 with three.
MatrixContents ==
  SquareContents \cup
  { <<Floats(<<1, 2>>), Floats(<<3, 4>>), Floats(<<5, 6>>)>>,
    Floats(<<2, 3, 1, 2, 3, 4, 5, 6>>).items,
    Floats(<<2, 3, 1, 2, 3, 4, 5>>).items,
    Floats(<<2, 3>>).items,
    Floats(<<1, 2, 5, 6, 7>>).items }

\* The arguments of new Mat2x2(...), new Mat3x3(...) and new Mat4x4(...): the
\* scalars, or one array per row.
FixedContents(cls) ==
  CASE cls = "Mat2x2" -> Floats(<<1, 2, 3, 4>>).items
    [] cls = "Mat3x3" -> <<Floats(<<1, 2, 3>>), Floats(<<4, 5, 1>>), Floats(<<2, 3, 4>>)>>
    [] cls = "Mat4x4" -> Floats(<<1, 2, 0, 3, 0, 1, 2, 0, 3, 0, 1, 2, 2, 3, 0, 1>>).items

\* The sizes passed to Matrix.getIdentity.
IdentitySizes == {2}

\* The arguments of new Vector(...) for the vectors that meet matrices.
ColumnContents == {<<Floats(<<1, 2>>)>>}

MatIds == 1..Len(mats)

\* The Vector and Matrix objects there are.
Refs == {VecRef(i) : i \in VecIds} \cup {MatRef(i) : i \in MatIds}

\* A product is asked for while there is room for its result.
Room == Len(vecs) + Len(mats) < MaxObjects

\* new Matrix(...content).
MatConstruct(content) ==
  /\ Leaves("new", "Matrix", 0, content, FALSE, NewMatrix(Heap, "Matrix", content))
  /\ UNCHANGED ops

\* new Mat2x2(...args), new Mat3x3(...args), new Mat4x4(...args).
FixedConstruct(cls, args) ==
  /\ Leaves("new", cls, 0, args, FALSE, NewFixed(Heap, cls, args))
  /\ UNCHANGED ops

\* Matrix.getIdentity(size).
MatIdentity(size) ==
  /\ Leaves("getIdentity", "Matrix", 0, <<Float(size)>>, FALSE, Matrix_getIdentity(Heap, size))
  /\ UNCHANGED ops

\* Mat2x2.getIdentity(), Mat3x3.getIdentity(), Mat4x4.getIdentity().
FixedIdentity(cls) ==
  /\ Leaves("getIdentity", cls, 0, <<>>, FALSE, Fixed_getIdentity(Heap, cls))
  /\ UNCHANGED ops

\* Matrix.dotProduct(m1, m2).
MatDot(m1, m2) ==
  /\ Room
  /\ Leaves("dotProduct", "Matrix", 0, <<m1, m2>>, FALSE, Matrix_dotProduct(Heap, m1, m2))
  /\ UNCHANGED ops

\* cls.dotProduct(A, B) for a fixed class.
FixedDot(cls, A, B) ==
  /\ Room
  /\ Leaves("dotProduct", cls, 0, <<A, B>>, FALSE, Fixed_dotProduct(Heap, cls, A, B))
  /\ UNCHANGED ops

\* for (let v of m), all the values collected.
MatIterate(m) ==
  /\ Leaves("iterate", mats[m].cls, m, <<>>, FALSE,
            Returns(Heap, Arr(Matrix_iterator(mats[m]))))
  /\ UNCHANGED ops

\* The class Matrix with the vectors it meets.
NextMat ==
  \/ \E content \in ColumnContents : VecConstruct(content)
  \/ \E content \in MatrixContents : MatConstruct(content)
  \/ \E v \in VecIds : MatConstruct(<<VecRef(v)>>)
  \/ \E m1 \in Refs, m2 \in Refs : MatDot(m1, m2)
  \/ \E this \in VecIds, m \in MatIds, self \in BOOLEAN : VecMultiply(this, MatRef(m), self)
  \/ \E m \in MatIds : MatIterate(m)

\* The identities and the products of the class Matrix and of the fixed classes.
NextFixed ==
  \/ \E content \in SquareContents : MatConstruct(content)
  \/ \E cls \in FixedClasses : FixedConstruct(cls, FixedContents(cls))
  \/ \E size \in IdentitySizes : MatIdentity(size)
  \/ \E cls \in FixedClasses : FixedIdentity(cls)
  \/ \E m1 \in MatIds, m2 \in MatIds : MatDot(MatRef(m1), MatRef(m2))
  \/ \E A \in MatIds, B \in MatIds :
       mats[A].cls \in FixedClasses /\ FixedDot(mats[A].cls, MatRef(A), MatRef(B))

\* The angles passed to getRotation, in quarter turns.
Angles == {-1, 1, 2}

\* The arguments of getTranslation, and of getOrthographic: left, right, bottom,
\* top, near, far, with every quotient of the matrix an integer.
Offsets == {<<Float(2), Float(3), Float(5)>>}

Boxes == {<<Float(1), Float(3), Float(1), Float(2), Float(1), Float(3)>>}

\* The arguments of new Matrix(...) for a point [px, py, pz, 1] as a 4 x 1 matrix:
\* [left, bottom, -near, 1] of the box, and another point.
PointContents ==
  { <<Arr(<<Floats(<<1>>), Floats(<<1>>), Floats(<<-1>>), Floats(<<1>>)>>)>>,
    <<Arr(<<Floats(<<7>>), Floats(<<-4>>), Floats(<<6>>), Floats(<<1>>)>>)>> }

\* Mat2x2.getRotation(angle), Mat3x3.getRotation(angle).
FixedRotation(cls, turns) ==
  /\ Leaves("getRotation", cls, 0, <<Float(turns)>>, FALSE, Fixed_getRotation(Heap, cls, turns))
  /\ UNCHANGED ops

\* Mat4x4.getTranslation(x, y, z).
Translation(o) ==
  /\ Leaves("getTranslation", "Mat4x4", 0, o, FALSE,
            Mat4x4_getTranslation(Heap, o[1], o[2], o[3]))
  /\ UNCHANGED ops

\* Mat4x4.getOrthographic(left, right, bottom, top, near, far).
Orthographic(b) ==
  /\ Leaves("getOrthographic", "Mat4x4", 0, b, FALSE,
            Mat4x4_getOrthographic(Heap, b[1], b[2], b[3], b[4], b[5], b[6]))
  /\ UNCHANGED ops

\* The transforms of the fixed classes and their products.
NextTransform ==
  \/ \E cls \in {"Mat2x2", "Mat3x3"}, turns \in Angles : FixedRotation(cls, turns)
  \/ \E o \in Offsets : Translation(o)
  \/ \E b \in Boxes : Orthographic(b)
  \/ \E content \in PointContents : MatConstruct(content)
  \/ \E m1 \in MatIds, m2 \in MatIds : MatDot(MatRef(m1), MatRef(m2))
  \/ \E A \in MatIds, B \in MatIds :
       mats[A].cls \in FixedClasses /\ FixedDot(mats[A].cls, MatRef(A), MatRef(B))

\* The arguments of new Matrix(...) in its forms: the nested array, 2 x 2 and with
\* an empty row; one array per row; height, width and scalars.  The Vector form
\* takes the vectors there are, made from ConstructorVectors.
ConstructorContents ==
  SquareContents \cup
  { <<Arr(<<Arr(<<>>)>>)>>,
    <<Floats(<<1, 2>>), Floats(<<3, 4>>), Floats(<<5, 6>>)>>,
    Floats(<<2, 3, 1, 2, 3, 4, 5, 6>>).items }

ConstructorVectors == ColumnContents \cup {<<Arr(<<>>)>>}

\* The arguments of new Mat2x2(...), new Mat3x3(...) and new Mat4x4(...): size *
\* size scalars or size rows, three scalars, the nested 2 x 2 array, and two rows
\* of three.
FixedArguments(cls) ==
  SquareContents \cup
  { FixedContents(cls),
    Floats(<<1, 2, 3>>).items,
    <<Floats(<<1, 2, 3>>), Floats(<<4, 5, 6>>)>> }

\* The constructors of Matrix and of the fixed classes.
NextCons ==
  \/ \E content \in ConstructorVectors : VecConstruct(content)
  \/ \E content \in ConstructorContents : MatConstruct(content)
  \/ \E v \in VecIds : MatConstruct(<<VecRef(v)>>)
  \/ \E cls \in FixedClasses : \E args \in FixedArguments(cls) : FixedConstruct(cls, args)

\* this.normalize(self).
VecNormalize(this, self) ==
  /\ ops < MaxOps
  /\ Leaves("normalize", "Vector", this, <<>>, self, Vector_normalize(Heap, this, self))
  /\ ops' = ops + 1

\* this.crossProduct(v2, self), this.add(v2, self), this.sub(v2, self) of a Vec3.
Vec3Call(method, this, v2, self) ==
  /\ ops < MaxOps
  /\ Leaves(method, "Vec3", this, <<VecRef(v2)>>, self,
            Vec3_method(Heap, method, this, VecRef(v2), self))
  /\ ops' = ops + 1

\* The vectors of the classes Vector, Vec2 and Vec3: a Vector of [3, 4], a Vec2 of
\* 1, 2, the Vec3 of 1, 2, 2 and of 2, 0, 1 and a Vec3 of 1, 2; the methods each
\* class has.
NextVec3 ==
  \/ VecConstruct(<<Floats(<<3, 4>>)>>)
  \/ \E made \in {<<"Vec2", <<1, 2>>>>, <<"Vec3", <<1, 2, 2>>>>, <<"Vec3", <<2, 0, 1>>>>,
                  <<"Vec3", <<1, 2>>>>} :
       /\ Leaves("new", made[1], 0, Floats(made[2]).items, FALSE,
                 NewVector(Heap, made[1], Floats(made[2]).items))
       /\ UNCHANGED ops
  \/ \E this \in VecIds, v2 \in VecIds, self \in BOOLEAN :
       /\ vecs[this].cls # "Vec3"
       /\ \/ VecAdd(this, v2, self)
          \/ VecSub(this, v2, self)
  \/ \E this \in VecIds, v2 \in VecIds, self \in BOOLEAN,
        method \in {"crossProduct", "add", "sub"} :
       /\ vecs[this].cls = "Vec3"
       /\ Vec3Call(method, this, v2, self)
  \/ \E this \in VecIds, v2 \in VecIds, self \in BOOLEAN :
       VecMultiply(this, VecRef(v2), self)
  \/ \E this \in VecIds, value \in Factors, self \in BOOLEAN :
       \/ VecMultiply(this, value, self)
       \/ VecScale(this, value, self)
  \/ \E this \in VecIds, self \in BOOLEAN : VecNormalize(this, self)

(***************************************************************************)
(* The specifications.  The generators, the vectors and the matrices share *)
(* no state in the source: each specification runs one part and leaves the *)
(* variables of the others as they start.                                  *)
(***************************************************************************)
Init == InitRng /\ InitLin

RngStep == NextRng /\ UNCHANGED linVars

VecStep == NextVec /\ UNCHANGED rngVars

SpecRng == Init /\ [][RngStep]_vars

SpecVec == Init /\ [][VecStep]_vars

MatStep == NextMat /\ UNCHANGED rngVars

FixedStep == NextFixed /\ UNCHANGED rngVars

SpecMat == Init /\ [][MatStep]_vars

SpecFixed == Init /\ [][FixedStep]_vars

SpecTransform == Init /\ [][NextTransform /\ UNCHANGED rngVars]_vars

SpecCons == Init /\ [][NextCons /\ UNCHANGED rngVars]_vars

SpecVec3 == Init /\ [][NextVec3 /\ UNCHANGED rngVars]_vars

(***************************************************************************)
(* The claims about prngCreator.                                           *)
(***************************************************************************)
\* The first n values of an sfc32 generator started from the scope `cell`.
RECURSIVE Sfc32Draws(_, _)
Sfc32Draws(cell, n) ==
  IF n = 0 THEN <<>>
  ELSE LET g == Sfc32(cell) IN <<g.value>> \o Sfc32Draws(g.cell, n - 1)

IsAvailable(name) ==
  \E k \in 1..Len(availableAlgos) : ToLowerCase(availableAlgos[k]) = ToLowerCase(name)

Prefix(seq, n) == SubSeq(seq, 1, n)

Min(a, b) == IF a <= b THEN a ELSE b

\* C1: a call of prngCreator with a numeric seed and an algorithm name that is a
\* string but not one of the available algorithms does not fail; it returns a
\* generator whose draws are those of the sfc32 generator for that seed, and warns.
C1_UnknownNameFallsBackToSfc32 ==
  \A i \in 1..Len(calls) :
    (/\ IsNumber(calls[i].seedArg)
     /\ IsString(calls[i].algoArg)
     /\ ~IsAvailable(calls[i].algoArg.str))
    => /\ calls[i].outcome = "returned"
       /\ calls[i].warned
       /\ draws[i] = Sfc32Draws(NewCell("sfc32", calls[i].seed), Len(draws[i]))

\* C2: for one seed, a generator asked for as "Mulberry32" or as "xoshiro128**"
\* runs that algorithm, and the sequence of its draws differs from the sequence
\* of the generator asked for as "sfc32" with the same seed.
C2_AlgorithmsAreDistinguishable ==
  \A i, j \in 1..Len(calls) :
    (/\ calls[i].algoArg \in {String("Mulberry32"), String("xoshiro128**")}
     /\ calls[j].algoArg = String("sfc32")
     /\ IsNumber(calls[i].seedArg)
     /\ calls[i].seedArg = calls[j].seedArg
     /\ Len(draws[i]) >= 1
     /\ Len(draws[j]) >= 1)
    => /\ calls[i].algo = calls[i].algoArg.str
       /\ LET n == Min(Len(draws[i]), Len(draws[j]))
          IN  Prefix(draws[i], n) # Prefix(draws[j], n)

\* C3: two generators made with the same numeric seed and the sfc32 algorithm
\* return the same sequence: the k-th draw of one is the k-th draw of the other,
\* however the calls to the two are interleaved.
C3_SameSeedSameSequence ==
  \A i, j \in 1..Len(calls) :
    (/\ i # j
     /\ calls[i].outcome = "returned"
     /\ calls[j].outcome = "returned"
     /\ ToLowerCase(calls[i].algo) = "sfc32"
     /\ ToLowerCase(calls[j].algo) = "sfc32"
     /\ calls[i].seed = calls[j].seed)
    => \A k \in 1..Min(Len(draws[i]), Len(draws[j])) : draws[i][k] = draws[j][k]

\* Two sfc32 generators of the numeric seed 1, one drawn from twice and the
\* other once: the draws were interleaved in some order.
C3_Witness ==
  \E i, j \in 1..Len(calls) :
    /\ i # j
    /\ calls[i].algoArg = String("sfc32")
    /\ calls[j].algoArg = String("sfc32")
    /\ calls[i].seedArg = Number(Num(0, 1))
    /\ calls[j].seedArg = Number(Num(0, 1))
    /\ Len(draws[i]) = 2
    /\ Len(draws[j]) = 1

\* C4: the seed a generator starts from is an unsigned 32-bit integer, and every
\* draw, after any number of draws, is raw / 2^32 with raw an integer in
\* 0 .. 2^32 - 1, so that 0 <= draw < 1.
C4_DrawsInUnitInterval ==
  \A i \in 1..Len(calls) :
    /\ NumLeq(Zero, calls[i].seed) /\ NumLess(calls[i].seed, TwoTo32)
    /\ \A k \in 1..Len(draws[i]) :
         /\ draws[i][k].den = TwoTo32
         /\ draws[i][k].num.l \in 0..(Half - 1)
         /\ NumLeq(Zero, draws[i][k].num)
         /\ NumLess(draws[i][k].num, draws[i][k].den)

\* A generator made with the seed -1, which the cast changes, drawn from three times.
C4_Witness ==
  \E i \in 1..Len(calls) :
    /\ calls[i].seedArg = Number(Num(-1, Half - 1))
    /\ calls[i].seed = Num(Half - 1, Half - 1)
    /\ Len(draws[i]) = 3

(***************************************************************************)
(* The claims about Vector.                                                *)
(***************************************************************************)
\* The arithmetic a method does: multiply and scale multiply.
OpOf(name) ==
  CASE name = "add" -> "add" [] name = "sub" -> "sub" [] OTHER -> "mul"

\* What a call with operand `value` makes of the elements `a` of its receiver,
\* given the arrays `as` before the call and the Vector objects `vs`.
Expected(name, a, value, vs, as) ==
  [k \in 1..Len(a) |->
     IF value.kind = "Vector"
     THEN Arith(OpOf(name), a[k], Index(as[vs[value.val].vArray], k - 1))
     ELSE Arith("mul", a[k], value)]

\* The last call was add, sub, multiply or scale on a Vector, by a Vector or a number.
IsVectorArithmetic(call) ==
  /\ call.cls = "Vector"
  /\ call.op \in {"add", "sub", "multiply", "scale"}
  /\ Len(call.args) = 1
  /\ call.args[1].kind \in {"Vector", "number"}

\* C8: for add, sub, multiply (by a vector or a scalar) and scale, a call with the
\* flag false changes no array that existed (the receiver's and the operand's
\* values stay) and returns a new Vector, holding the result in an array of its
\* own; a call with the flag true returns the receiver itself, which then holds
\* the result, every other array staying as it was.  No two Vector objects ever
\* share an array, so a later in-place call on a result cannot reach the receiver.
C8_FlagDecidesWhereTheResultGoes ==
  /\ [](\A v \in VecIds, w \in VecIds : v # w => vecs[v].vArray # vecs[w].vArray)
  /\ [][IsVectorArithmetic(last') =>
          LET this == last'.this
              ta == vecs[this].vArray
              result == Expected(last'.op, arrs[ta], last'.args[1], vecs, arrs)
          IN  /\ ~last'.threw
              /\ \A v \in VecIds : vecs'[v] = vecs[v]
              /\ IF last'.self
                 THEN /\ last'.ret = VecRef(this)
                      /\ vecs' = vecs
                      /\ Len(arrs') = Len(arrs)
                      /\ arrs'[ta] = result
                      /\ \A a \in 1..Len(arrs) : a # ta => arrs'[a] = arrs[a]
                 ELSE /\ last'.ret = VecRef(Len(vecs) + 1)
                      /\ Len(vecs') = Len(vecs) + 1
                      /\ \A a \in 1..Len(arrs) : arrs'[a] = arrs[a]
                      /\ vecs'[Len(vecs')].vArray \notin 1..Len(arrs)
                      /\ arrs'[vecs'[Len(vecs')].vArray] = result]_vars

\* C8 happens: [1, 2] was added to itself into a new Vector, then added in place
\* to that result, which holds [3, 6] while the receiver of the first call still
\* holds [1, 2].
C8_Witness ==
  /\ Len(vecs) = 2
  /\ last.op = "add"
  /\ last.self
  /\ last.this = 2
  /\ last.ret = VecRef(2)
  /\ arrs[vecs[2].vArray] = <<Float(3), Float(6)>>
  /\ arrs[vecs[1].vArray] = <<Float(1), Float(2)>>

\* C9: add, sub, dotProduct and the vector-by-vector multiply, called with an
\* operand whose length differs from the receiver's, fail with an error: the call
\* throws and returns nothing.
C9_LengthMismatchFails ==
  ( /\ last.cls = "Vector"
    /\ last.op \in {"add", "sub", "dotProduct", "multiply"}
    /\ Len(last.args) = 1
    /\ last.args[1].kind = "Vector"
    /\ vecs[last.this].length # vecs[last.args[1].val].length )
  => (last.threw /\ last.ret = FUndefined)

(***************************************************************************)
(* The claims about Matrix and the fixed-size classes.                     *)
(***************************************************************************)
\* A Matrix object as the data model has it: height and width at least 1, and a
\* grid of height rows of width elements.
WellFormed(m) ==
  /\ m.height.kind = "number" /\ m.height.val >= 1
  /\ m.width.kind = "number" /\ m.width.val >= 1
  /\ m.mArray.kind = "array"
  /\ Len(m.mArray.items) = m.height.val
  /\ \A i \in 1..m.height.val :
       m.mArray.items[i].kind = "array" /\ Len(m.mArray.items[i].items) = m.width.val

\* The rows of a well-formed Matrix, and a Vector's elements as a single column.
RowsOf(m) == [i \in 1..m.height.val |-> m.mArray.items[i].items]

ColumnOf(v) == [i \in 1..Len(arrs[v.vArray]) |-> <<arrs[v.vArray][i]>>]

\* The sum of f[1] .. f[n].
RECURSIVE SumTo(_, _)
SumTo(f, n) == IF n = 0 THEN 0 ELSE SumTo(f, n - 1) + f[n]

\* The first column of the product of the grids A and B of numbers.
FirstColumn(A, B) ==
  [j \in 1..Len(A) |->
     Float(SumTo([c \in 1..Len(B) |-> A[j][c].val * B[c][1].val], Len(B)))]

\* The last call returned a Vector, new or not, that holds `column`.
ReturnedVector(column) ==
  /\ ~last.threw
  /\ last.ret.kind = "Vector"
  /\ arrs[vecs[last.ret.val].vArray] = column

\* C5: Matrix.dotProduct with a Vector and a Matrix of compatible shape returns a
\* Vector holding the single column of the product, the Vector counting as a
\* single-column matrix, and vector.multiply(matrix) returns that same Vector.
C5_VectorOperandGivesVector ==
  /\ ( /\ last.op = "dotProduct"
       /\ last.args[1].kind = "Matrix"
       /\ last.args[2].kind = "Vector"
       /\ WellFormed(mats[last.args[1].val])
       /\ mats[last.args[1].val].width = vecs[last.args[2].val].length )
     => ReturnedVector(FirstColumn(RowsOf(mats[last.args[1].val]),
                                   ColumnOf(vecs[last.args[2].val])))
  /\ ( /\ last.op = "dotProduct"
       /\ last.args[1].kind = "Vector"
       /\ last.args[2].kind = "Matrix"
       /\ WellFormed(mats[last.args[2].val])
       /\ mats[last.args[2].val].height = Float(1) )
     => ReturnedVector(FirstColumn(ColumnOf(vecs[last.args[1].val]),
                                   RowsOf(mats[last.args[2].val])))
  /\ ( /\ last.op = "multiply"
       /\ last.args[1].kind = "Matrix"
       /\ ~last.self
       /\ WellFormed(mats[last.args[1].val])
       /\ mats[last.args[1].val].width = vecs[last.this].length )
     => ReturnedVector(FirstColumn(RowsOf(mats[last.args[1].val]),
                                   ColumnOf(vecs[last.this])))

\* Matrix.dotProduct was called on two well-formed Matrix objects.
IsMatrixProduct ==
  /\ last.op = "dotProduct"
  /\ last.cls = "Matrix"
  /\ last.args[1].kind = "Matrix" /\ WellFormed(mats[last.args[1].val])
  /\ last.args[2].kind = "Matrix" /\ WellFormed(mats[last.args[2].val])

\* C6: Matrix.dotProduct(A, B) on two matrices throws an Error and returns nothing
\* whenever A.width != B.height; whenever A.width = B.height it does not throw and
\* returns a Matrix of A.height rows and B.width columns.
C6_ProductShape ==
  IsMatrixProduct =>
    LET A == mats[last.args[1].val]
        B == mats[last.args[2].val]
    IN  IF A.width # B.height
        THEN last.threw /\ last.error = "Error" /\ last.ret = FUndefined
        ELSE /\ ~last.threw
             /\ last.ret.kind = "Matrix"
             /\ WellFormed(mats[last.ret.val])
             /\ mats[last.ret.val].height = A.height
             /\ mats[last.ret.val].width = B.width

\* C6 happens: the 2 x 3 matrix times the 3 x 2 matrix returned the 2 x 2 product,
\* and a 2 x 2 matrix times the 3 x 2 matrix threw.
C6_Witness ==
  /\ IsMatrixProduct
  /\ mats[last.args[1].val].width = Float(3)
  /\ mats[last.args[2].val].height = Float(3)
  /\ ~last.threw
  /\ RowsOf(mats[last.ret.val]) = <<Floats(<<22, 28>>).items, Floats(<<49, 64>>).items>>

\* new Matrix(height, width, ...scalars) was called with numbers, height and width
\* at least 1.
IsFlatConstruction ==
  /\ last.op = "new"
  /\ last.cls = "Matrix"
  /\ Len(last.args) >= 2
  /\ \A k \in 1..Len(last.args) : last.args[k].kind = "number"
  /\ last.args[1].val >= 1
  /\ last.args[2].val >= 1

\* C7: new Matrix(height, width, ...scalars) with exactly height * width scalars
\* returns a Matrix whose element (i, j) is scalar i * width + j, and whose
\* iterator yields the scalars in the order given; with any other number of
\* scalars the constructor throws.
C7_FlatConstruction ==
  IsFlatConstruction =>
    LET height == last.args[1].val
        width == last.args[2].val
    IN  IF Len(last.args) - 2 = height * width
        THEN /\ ~last.threw
             /\ last.ret.kind = "Matrix"
             /\ WellFormed(mats[last.ret.val])
             /\ \A i \in 0..(height - 1), j \in 0..(width - 1) :
                  GridAt(mats[last.ret.val], i, j) = last.args[2 + (i * width + j) + 1]
             /\ Matrix_iterator(mats[last.ret.val]) = SubSeq(last.args, 3, Len(last.args))
        ELSE last.threw

\* The Matrix object m is the identity of size n.
IsIdentity(m, n) ==
  /\ WellFormed(m)
  /\ m.height = Float(n)
  /\ m.width = Float(n)
  /\ \A i \in 0..(n - 1), j \in 0..(n - 1) :
       GridAt(m, i, j) = Float(IF i = j THEN 1 ELSE 0)

\* The size a call of getIdentity asks for.
AskedSize(call) == IF call.cls = "Matrix" THEN call.args[1].val ELSE SizeOf(call.cls)

\* dotProduct, of Matrix or of the class of both operands, was called on two
\* Matrix objects.
IsProductOfClass ==
  /\ last.op = "dotProduct"
  /\ last.args[1].kind = "Matrix"
  /\ last.args[2].kind = "Matrix"
  /\ \/ last.cls = "Matrix"
     \/ mats[last.args[1].val].cls = last.cls /\ mats[last.args[2].val].cls = last.cls

\* The last call returned a Matrix with the elements of the square matrix M.
ReturnedEqualTo(M) ==
  /\ ~last.threw
  /\ last.ret.kind = "Matrix"
  /\ WellFormed(mats[last.ret.val])
  /\ RowsOf(mats[last.ret.val]) = RowsOf(M)

\* C10: Matrix.getIdentity(n), Mat2x2.getIdentity(), Mat3x3.getIdentity() and
\* Mat4x4.getIdentity() return the identity I of their size, and for a square
\* matrix M of that size both dotProduct(M, I) and dotProduct(I, M), by
\* Matrix.dotProduct or by the dotProduct of the operands' fixed class, return a
\* matrix elementwise equal to M.
C10_IdentityIsNeutral ==
  /\ last.op = "getIdentity" =>
       /\ ~last.threw
       /\ last.ret.kind = "Matrix"
       /\ mats[last.ret.val].cls = last.cls
       /\ IsIdentity(mats[last.ret.val], AskedSize(last))
  /\ IsProductOfClass =>
       LET A == mats[last.args[1].val]
           B == mats[last.args[2].val]
       IN  /\ (WellFormed(A) /\ A.height = A.width /\ IsIdentity(B, A.height.val))
                => ReturnedEqualTo(A)
           /\ (WellFormed(B) /\ B.height = B.width /\ IsIdentity(A, B.height.val))
                => ReturnedEqualTo(B)

\* C10 happens: Mat4x4.dotProduct(I, M) returned for the identity I and a 4 x 4
\* matrix M that is not the identity.
C10_Witness ==
  /\ IsProductOfClass
  /\ last.cls = "Mat4x4"
  /\ IsIdentity(mats[last.args[1].val], 4)
  /\ ~IsIdentity(mats[last.args[2].val], 4)
  /\ WellFormed(mats[last.args[2].val])
  /\ ReturnedEqualTo(mats[last.args[2].val])

(***************************************************************************)
(* The claims about the transforms of the fixed-size classes.              *)
(***************************************************************************)
\* The last call multiplied, by the dotProduct of cls or of Matrix, the Matrix
\* objects that getRotation of cls builds for the angles t and -t.
IsRotationByItsInverse(cls, turns) ==
  /\ IsProductOfClass
  /\ mats[last.args[1].val].cls = cls
  /\ mats[last.args[2].val].cls = cls
  /\ mats[last.args[1].val].mArray.items = RotationRows(cls, turns)
  /\ mats[last.args[2].val].mArray.items = RotationRows(cls, -turns)

\* C11: for every angle t, with cos t and sin t such that their squares add up to
\* 1, Mat2x2.dotProduct(getRotation(t), getRotation(-t)) is the 2 x 2 identity and
\* Mat3x3.dotProduct(getRotation(t), getRotation(-t)) is the 3 x 3 identity.
C11_RotationTimesItsInverse ==
  \A cls \in {"Mat2x2", "Mat3x3"}, turns \in Angles :
    IsRotationByItsInverse(cls, turns) =>
      /\ ~last.threw
      /\ last.ret.kind = "Matrix"
      /\ IsIdentity(mats[last.ret.val], SizeOf(cls))

\* C11 happens: Mat3x3.dotProduct returned for the rotations by a quarter turn and
\* by a quarter turn back, neither of them the identity.
C11_Witness ==
  /\ IsRotationByItsInverse("Mat3x3", 1)
  /\ last.cls = "Mat3x3"
  /\ ~IsIdentity(mats[last.args[1].val], 3)
  /\ IsIdentity(mats[last.ret.val], 3)

\* The grid of the Matrix that a factory call leaving r returned.
GridOf(r) == r.mats[r.ret.val].mArray.items

\* The last call multiplied, by Matrix.dotProduct or by Mat4x4.dotProduct, a Matrix
\* with the grid `grid` by a point [px, py, pz, 1] held as a 4 x 1 Matrix.
IsTransformOfPoint(grid) ==
  /\ last.op = "dotProduct"
  /\ last.cls \in {"Matrix", "Mat4x4"}
  /\ last.args[1].kind = "Matrix"
  /\ last.args[2].kind = "Matrix"
  /\ mats[last.args[1].val].mArray.items = grid
  /\ WellFormed(mats[last.args[2].val])
  /\ mats[last.args[2].val].height = Float(4)
  /\ mats[last.args[2].val].width = Float(1)
  /\ GridAt(mats[last.args[2].val], 3, 0) = Float(1)

\* The last call returned the 4 x 1 Matrix of the column `column`.
ReturnedColumn(column) ==
  /\ ~last.threw
  /\ last.ret.kind = "Matrix"
  /\ WellFormed(mats[last.ret.val])
  /\ RowsOf(mats[last.ret.val]) = [i \in 1..4 |-> <<column[i]>>]

\* The bottom row of the Matrix the last call returned is [0, 0, 0, 1].
ReturnedBottomRow ==
  /\ ~last.threw
  /\ last.ret.kind = "Matrix"
  /\ WellFormed(mats[last.ret.val])
  /\ mats[last.ret.val].height = Float(4)
  /\ RowsOf(mats[last.ret.val])[4] = Floats(<<0, 0, 0, 1>>).items

\* getTranslation(x, y, z) has the bottom row [0, 0, 0, 1] and moves the point
\* [px, py, pz, 1] to [px + x, py + y, pz + z, 1].
TranslationMovesPoint ==
  /\ last.op = "getTranslation" => ReturnedBottomRow
  /\ \A o \in Offsets :
       IsTransformOfPoint(GridOf(Mat4x4_getTranslation(Heap, o[1], o[2], o[3]))) =>
         LET P == mats[last.args[2].val]
         IN  ReturnedColumn(<<Arith("add", GridAt(P, 0, 0), o[1]),
                              Arith("add", GridAt(P, 1, 0), o[2]),
                              Arith("add", GridAt(P, 2, 0), o[3]),
                              Float(1)>>)

\* getOrthographic(left, right, bottom, top, near, far) has the bottom row
\* [0, 0, 0, 1] and maps the corner [left, bottom, -near, 1] to [-1, -1, -1, 1].
OrthographicMapsCorner ==
  /\ last.op = "getOrthographic" => ReturnedBottomRow
  /\ \A b \in Boxes :
       ( /\ IsTransformOfPoint(GridOf(Mat4x4_getOrthographic(Heap, b[1], b[2], b[3],
                                                             b[4], b[5], b[6])))
         /\ RowsOf(mats[last.args[2].val])
              = <<(<<b[1]>>), (<<b[3]>>), (<<Arith("mul", Float(-1), b[5])>>), (<<Float(1)>>)>> )
       => ReturnedColumn(Floats(<<-1, -1, -1, 1>>).items)

\* C16: Mat4x4.getTranslation and Mat4x4.getOrthographic follow the same
\* column-vector convention, bottom row [0, 0, 0, 1] and the offsets in the last
\* column: getOrthographic(l, r, b, t, n, f) times the column [l, b, -n, 1] is
\* [-1, -1, -1, 1], just as getTranslation(x, y, z) times the column
\* [px, py, pz, 1] is [px + x, py + y, pz + z, 1].
C16_SameColumnVectorConvention ==
  /\ TranslationMovesPoint
  /\ OrthographicMapsCorner

(***************************************************************************)
(* The claims about what the constructors return.                          *)
(***************************************************************************)
\* The last call was a constructor of one of `classes` that returned an object.
Constructed(classes) ==
  /\ last.op = "new"
  /\ last.cls \in classes
  /\ ~last.threw
  /\ last.ret.kind = "Matrix"

\* The arguments follow one of the four forms the constructor accepts: a nested
\* array, one array of numbers per row, Vectors, or height, width and numbers.
InOneOfTheForms(args) ==
  \/ Index(args, 0).kind = "array" /\ Index(Index(args, 0).items, 0).kind = "array"
  \/ Index(args, 0).kind = "array" /\ IsNumber(Index(Index(args, 0).items, 0))
  \/ Index(args, 0).kind = "Vector"
  \/ IsNumber(Index(args, 0)) /\ IsNumber(Index(args, 1)) /\ IsNumber(Index(args, 2))

\* The arguments are scalars, a nested array, or one array of numbers per row.
InOneOfTheFixedForms(args) ==
  \/ IsNumber(Index(args, 0))
  \/ Index(args, 0).kind = "array" /\ Index(Index(args, 0).items, 0).kind = "array"
  \/ Index(args, 0).kind = "array" /\ IsNumber(Index(Index(args, 0).items, 0))

\* Every fixed-size object a constructor returned is square of the size of its
\* class.
FixedIsSquare ==
  (Constructed(FixedClasses) /\ InOneOfTheFixedForms(last.args)) =>
    /\ WellFormed(mats[last.ret.val])
    /\ mats[last.ret.val].height = Float(SizeOf(last.cls))
    /\ mats[last.ret.val].width = Float(SizeOf(last.cls))

\* A call with scalars that are not size * size many does not end in the flat
\* form's error about the number of values.
WrongCountNotFlat ==
  ( /\ last.op = "new"
    /\ last.cls \in FixedClasses
    /\ IsNumber(Index(last.args, 0))
    /\ Len(last.args) # SizeOf(last.cls) * SizeOf(last.cls) )
  => ~(last.threw /\ last.error = "Error")

\* C12: every object constructed as a Mat2x2, Mat3x3 or Mat4x4, through scalars, a
\* nested array or one array per row, has height = width = 2, 3 or 4; a call with
\* scalars whose count is not size * size is handled by the nested form, not by the
\* flat form.
C12_FixedClassesAreSquare ==
  /\ FixedIsSquare
  /\ WrongCountNotFlat

\* C13: every Matrix a constructor call returns without failing, for any of the
\* four forms of its arguments, has an integer height >= 1, an integer width >= 1
\* and a grid of exactly height rows of exactly width elements.
C13_ConstructedMatrixIsWellFormed ==
  (Constructed({"Matrix"}) /\ InOneOfTheForms(last.args)) =>
    WellFormed(mats[last.ret.val])

(***************************************************************************)
(* The claim about the unrolled products and the loop of Matrix.           *)
(***************************************************************************)
\* The last call was cls.dotProduct(A, B) of a fixed class on two Matrix objects.
IsFixedProduct ==
  /\ last.op = "dotProduct"
  /\ last.cls \in FixedClasses
  /\ last.args[1].kind = "Matrix"
  /\ last.args[2].kind = "Matrix"

\* m is an object of the class cls, square of the size of cls.
IsOfFixedType(m, cls) == m.cls = cls /\ WellFormed(m) /\ m.height = Float(SizeOf(cls)) /\ m.width = m.height

\* The last call left what the call that leaves r would have left: the same error,
\* or the same Matrix, class included.
SameOutcome(r) ==
  /\ last.threw = r.threw
  /\ last.error = r.error
  /\ ~last.threw =>
       /\ last.ret.kind = "Matrix"
       /\ r.ret.kind = "Matrix"
       /\ mats[last.ret.val] = r.mats[r.ret.val]

\* The last call returned a Matrix with the elements of the Matrix r returned.
SameElements(r) ==
  /\ ~last.threw /\ ~r.threw
  /\ last.ret.kind = "Matrix" /\ r.ret.kind = "Matrix"
  /\ WellFormed(mats[last.ret.val])
  /\ mats[last.ret.val].height = r.mats[r.ret.val].height
  /\ mats[last.ret.val].width = r.mats[r.ret.val].width
  /\ RowsOf(mats[last.ret.val]) = RowsOf(r.mats[r.ret.val])

\* What cls.dotProduct(A, B) is compared with: Matrix.dotProduct on its operands,
\* which the call did not change.
LoopProduct == Matrix_dotProduct(Heap, last.args[1], last.args[2])

\* C15: for two matrices A and B of the same fixed type, the unrolled dotProduct of
\* that type returns a matrix elementwise equal to Matrix.dotProduct(A, B); when the
\* operands are not both of that type, it returns exactly what
\* Matrix.dotProduct(A, B) returns, its shape error included.
C15_UnrolledEqualsLoop ==
  IsFixedProduct =>
    IF /\ IsOfFixedType(mats[last.args[1].val], last.cls)
       /\ IsOfFixedType(mats[last.args[2].val], last.cls)
    THEN SameElements(LoopProduct)
    ELSE (mats[last.args[1].val].cls # last.cls \/ mats[last.args[2].val].cls # last.cls)
           => SameOutcome(LoopProduct)

\* C15 happens: Mat2x2.dotProduct returned the product of two Mat2x2 that is not
\* its own transpose, neither operand the identity.
C15_Witness ==
  /\ IsFixedProduct
  /\ last.cls = "Mat2x2"
  /\ IsOfFixedType(mats[last.args[1].val], "Mat2x2")
  /\ IsOfFixedType(mats[last.args[2].val], "Mat2x2")
  /\ ~IsIdentity(mats[last.args[1].val], 2)
  /\ ~IsIdentity(mats[last.args[2].val], 2)
  /\ ~last.threw
  /\ GridAt(mats[last.ret.val], 0, 1) # GridAt(mats[last.ret.val], 1, 0)

(***************************************************************************)
(* The claim about the length of a vector.                                 *)
(***************************************************************************)
\* Every vector holds as many values as its length says.
StoredEqualsLength ==
  \A v \in VecIds :
    /\ vecs[v].length.kind = "number"
    /\ Len(arrs[vecs[v].vArray]) = vecs[v].length.val

\* No call changes the length of a vector there is.
LengthStays == \A v \in VecIds : vecs'[v].length = vecs[v].length

\* C14: for every Vector, Vec2 or Vec3, after any sequence of add, sub, multiply,
\* scale, normalize and crossProduct calls, in place or not, the length equals the
\* value set at construction and the number of stored values equals that length.
C14_LengthIsKept == [](StoredEqualsLength) /\ [][LengthStays]_vars

============================================================================
